---- MODULE Spec2Model ----
(***************************************************************************)
(* CardtoPDFPlugin (src/src/plugin.ts): convert() as a state machine.      *)
(* Every await of convert/_generatePDF/_writeToFile is a suspension point; *)
(* the code between two awaits runs atomically (single-threaded event      *)
(* loop) and is one action.  Collaborators (the HTML emitter, puppeteer,   *)
(* fs, the caller's progress callback) answer nondeterministically.        *)
(***************************************************************************)
EXTENDS Integers, Sequences, FiniteSets, TLC

\* ------------------------------------------------------------------ bounds

\* convert() calls that may be in flight on one plugin instance
NumCalls == 2

Calls == 1..NumCalls

\* ------------------------------------------------- JavaScript object values
\* An object is the function of its keys that hold a value (def) plus the set
\* of its keys that are present with the value undefined (und).

EmptyObj == [def |-> <<>>, und |-> {}]

Obj(r) == [def |-> r, und |-> {}]

Keys(o) == (DOMAIN o.def) \cup o.und

IsDefined(o, k) == k \in DOMAIN o.def

\* { ...a, ...b }: every own key of b, undefined ones included, overrides a
Spread(a, b) ==
  [def |-> [k \in ((DOMAIN a.def) \ b.und) \cup (DOMAIN b.def) |->
              IF k \in DOMAIN b.def THEN b.def[k] ELSE a.def[k]],
   und |-> (a.und \ (DOMAIN b.def)) \cup b.und]

\* the object o with key k present and undefined
WithUndefined(o, k) ==
  [def |-> [x \in (DOMAIN o.def) \ {k} |-> o.def[x]], und |-> o.und \cup {k}]

\* a string-valued key that is truthy: defined and not ""
TruthyStr(o, k) == IsDefined(o, k) /\ o.def[k] # ""

\* a margin side (a sequence of characters) that is truthy
TruthySeq(o, k) == IsDefined(o, k) /\ o.def[k] # <<>>

\* a boolean key that is truthy
TruthyBool(o, k) == IsDefined(o, k) /\ o.def[k] = TRUE

\* ------------------------------------------------------ program constants

\* the object DEFAULT_OPTIONS.margin: one object for the whole module, which
\* whoever holds a reference to it can write to
VARIABLE defaultMargin

MM20 == <<"2", "0", "m", "m">>

\* the margin object as the module's source text writes it
DEFAULT_MARGIN == Obj([top |-> MM20, right |-> MM20, bottom |-> MM20, left |-> MM20])

\* const DEFAULT_OPTIONS: its margin key refers to the one margin object
DEFAULT_OPTIONS ==
  Obj([pageSize |-> "A4",
       orientation |-> "portrait",
       margin |-> defaultMargin,
       includeCover |-> TRUE,
       includeTableOfContents |-> FALSE,
       printBackground |-> TRUE,
       scale |-> 1,
       waitTime |-> 1000])

PAGE_SIZE_MAP ==
  [A4 |-> [width |-> "210mm", height |-> "297mm"],
   A3 |-> [width |-> "297mm", height |-> "420mm"],
   Letter |-> [width |-> "8.5in", height |-> "11in"],
   Legal |-> [width |-> "8.5in", height |-> "14in"],
   Tabloid |-> [width |-> "11in", height |-> "17in"]]

\* PAGE_SIZE_MAP is a plain object literal: a lookup also finds what it
\* inherits from Object.prototype
ObjectPrototypeKeys == {"constructor", "toString", "valueOf", "hasOwnProperty"}

\* !PAGE_SIZE_MAP[pageSize] is false
PageSizeMapTruthy(pageSize) ==
  pageSize \in (DOMAIN PAGE_SIZE_MAP) \cup ObjectPrototypeKeys

Statuses ==
  {"converting-html", "generating-cover", "generating-toc", "generating-pdf",
   "completed", "failed"}

\* --------------------------------------------------------- OptionsResolver

\* a merge that keeps only the keys the defaults have
MergeOptionsDefaultKeysOnly(options) ==
  LET callerMargin == IF IsDefined(options, "margin") THEN options.def.margin
                      ELSE EmptyObj
      margin == Spread(DEFAULT_OPTIONS.def.margin, callerMargin)
      all == Spread(Spread(DEFAULT_OPTIONS, options), Obj([margin |-> margin]))
  IN [def |-> [k \in (DOMAIN all.def) \cap (DOMAIN DEFAULT_OPTIONS.def) |-> all.def[k]],
      und |-> all.und \cap (DOMAIN DEFAULT_OPTIONS.def)]

\* _mergeOptions: { ...DEFAULT_OPTIONS, ...options,
\*                  margin: { ...DEFAULT_OPTIONS.margin, ...options?.margin } }
MergeOptions(options) ==
  LET callerMargin == IF IsDefined(options, "margin") THEN options.def.margin
                      ELSE EmptyObj
      margin == Spread(DEFAULT_OPTIONS.def.margin, callerMargin)
  IN Spread(Spread(DEFAULT_OPTIONS, options), Obj([margin |-> margin]))

\* a merge that fills the caller's margin object in place
mergeOptionsCallFillingMargin(options) ==
  [merged |-> MergeOptions(options),
   options |-> IF IsDefined(options, "margin")
               THEN Spread(options, Obj([margin |-> MergeOptions(options).def.margin]))
               ELSE options]

\* a call of _mergeOptions: the new object it returns, and the caller's object
\* after it (options and options.margin are only read)
mergeOptionsCall(options) == [merged |-> MergeOptions(options), options |-> options]

Digits == {"0", "1", "2", "3", "4", "5", "6", "7", "8", "9"}

Units == {<<"m", "m">>, <<"c", "m">>, <<"i", "n">>, <<"p", "x">>, <<"p", "t">>,
          <<"e", "m">>, <<"r", "e", "m">>}

AllDigits(s) == Len(s) > 0 /\ \A i \in 1..Len(s) : s[i] \in Digits

\* /^\d+(\.\d+)?$/
IsNumberText(s) ==
  \/ AllDigits(s)
  \/ \E d \in 2..(Len(s) - 1) :
       /\ s[d] = "."
       /\ AllDigits(SubSeq(s, 1, d - 1))
       /\ AllDigits(SubSeq(s, d + 1, Len(s)))

\* /^\d+(\.\d+)?(mm|cm|in|px|pt|em|rem)$/
IsValidCSSLength(value) ==
  \E u \in Units :
    /\ Len(value) > Len(u)
    /\ SubSeq(value, Len(value) - Len(u) + 1, Len(value)) = u
    /\ IsNumberText(SubSeq(value, 1, Len(value) - Len(u)))

MarginKeys == <<"top", "right", "bottom", "left">>

MarginError(options, key) ==
  IF /\ IsDefined(options, "margin")
     /\ TruthySeq(options.def.margin, key)
     /\ ~IsValidCSSLength(options.def.margin.def[key])
  THEN <<"margin-" \o key>>
  ELSE <<>>

\* validateOptions: the list of errors, in the order the code pushes them
ValidationErrors(options) ==
  (IF /\ TruthyStr(options, "pageSize")
      /\ options.def.pageSize # "custom"
      /\ ~PageSizeMapTruthy(options.def.pageSize)
   THEN <<"pageSize">> ELSE <<>>)
  \o
  (IF /\ IsDefined(options, "pageSize")
      /\ options.def.pageSize = "custom"
      /\ (~TruthyStr(options, "width") \/ ~TruthyStr(options, "height"))
   THEN <<"custom">> ELSE <<>>)
  \o
  (IF /\ TruthyStr(options, "orientation")
      /\ options.def.orientation \notin {"portrait", "landscape"}
   THEN <<"orientation">> ELSE <<>>)
  \o
  (IF /\ IsDefined(options, "scale")
      /\ (options.def.scale <= 0 \/ options.def.scale > 2)
   THEN <<"scale">> ELSE <<>>)
  \o MarginError(options, MarginKeys[1])
  \o MarginError(options, MarginKeys[2])
  \o MarginError(options, MarginKeys[3])
  \o MarginError(options, MarginKeys[4])
  \o
  (IF IsDefined(options, "waitTime") /\ options.def.waitTime < 0
   THEN <<"waitTime">> ELSE <<>>)

\* { valid, errors, warnings }: errors is undefined when the list is empty,
\* warnings always
ValidationResult(errors) ==
  IF Len(errors) = 0
  THEN [def |-> [valid |-> TRUE], und |-> {"errors", "warnings"}]
  ELSE [def |-> [valid |-> FALSE, errors |-> errors], und |-> {"warnings"}]

\* validateOptions without the rule that 'custom' needs width and height
validateOptionsNoCustomRule(options) ==
  ValidationResult(SelectSeq(ValidationErrors(options), LAMBDA e : e # "custom"))

validateOptions(options) == ValidationResult(ValidationErrors(options))

\* ------------------------------------------------------------ collaborators

\* file contents of the emitter's asset map: text (string) or binary (Uint8Array)
TextContent(t) == [type |-> "string", text |-> t, bytes |-> <<>>]

BinaryContent(b) == [type |-> "Uint8Array", text |-> <<>>, bytes |-> b]

IndexHtmlText == <<"<html>", "<head>", "</head>", "<body>", "<h1>", "</body>", "</html>">>

NoFiles == [p \in {} |-> TextContent(<<>>)]

\* asset maps the emitter may hand back: a root document as text, none,
\* an empty one, a binary one
FileMaps ==
  {("index.html" :> TextContent(IndexHtmlText)),
   NoFiles,
   ("index.html" :> TextContent(<<>>)),
   ("index.html" :> BinaryContent(<<137, 80>>)),
   ("theme.css" :> TextContent(<<"b", "o", "d", "y", "{", "}">>))}

NoError == [code |-> "undefined", message |-> <<>>, cause |-> "undefined"]

EmitterError == [code |-> "CONV-HTML-001", message |-> <<"emitter-failed">>, cause |-> "undefined"]

\* what this._htmlPlugin.convert resolves to
EmitterResults ==
  {[success |-> FALSE, hasData |-> FALSE, error |-> EmitterError, files |-> NoFiles],
   [success |-> FALSE, hasData |-> FALSE, error |-> NoError, files |-> NoFiles],
   [success |-> TRUE, hasData |-> FALSE, error |-> NoError, files |-> NoFiles],
   [success |-> TRUE, hasData |-> FALSE, error |-> EmitterError, files |-> NoFiles]}
  \cup {[success |-> TRUE, hasData |-> TRUE, error |-> NoError, files |-> f] : f \in FileMaps}

\* document heights (px) page.evaluate may measure
PageHeights == {0, 1000, 2500}

NoPdf == [pdfOf |-> 0]

\* the bytes page.pdf of session sid produces
PdfBytes(sid) == [pdfOf |-> sid]

\* ----------------------------------------------------------- caller inputs

\* progress callbacks: one that never throws, and one per status that throws
\* when handed an event of that status
Callbacks == {[throwsOn |-> {}]} \cup {[throwsOn |-> {s}] : s \in Statuses}

SizeOptions ==
  {EmptyObj,
   Obj([pageSize |-> "custom", width |-> "100mm"]),
   Obj([scale |-> 3]),
   Obj([pageSize |-> "Letter", orientation |-> "landscape"])}

FlagOptions ==
  {Spread(Spread(a, b), w) :
     a \in {EmptyObj, Obj([includeCover |-> FALSE])},
     b \in {EmptyObj, Obj([includeTableOfContents |-> TRUE])},
     w \in {EmptyObj, Obj([waitTime |-> 0])}}

OutputOptions ==
  {EmptyObj, Obj([outputPath |-> ""]), Obj([outputPath |-> "out/card.pdf"])}

CallbackOptions == {EmptyObj} \cup {Obj([onProgress |-> cb]) : cb \in Callbacks}

\* the options objects convert is called with
ConvertOptions ==
  {Spread(Spread(s, f), Spread(o, p)) :
     s \in SizeOptions, f \in FlagOptions, o \in OutputOptions, p \in CallbackOptions}

\* the options of calls that run concurrently
ConcurrentOptions ==
  {Obj([onProgress |-> [throwsOn |-> {}]]),
   Obj([includeCover |-> FALSE, includeTableOfContents |-> TRUE,
        outputPath |-> "out/card.pdf", onProgress |-> [throwsOn |-> {}]])}

\* ------------------------------------------------------------------- state

VARIABLES
  pc,             \* per call: the await convert is suspended at, or its end
  taskId,         \* per call: const taskId = uuidv4()
  options,        \* per call: the caller's options object
  mergedOptions,  \* per call: const mergedOptions
  progress,       \* per call: the events its onProgress callback was handed
  result,         \* per call: what the returned promise resolved to
  htmlResult,     \* per call: const htmlResult, <<>> until the emitter resolved
  files,          \* per call: htmlResult.data.files
  browser,        \* per call: const browser (index into sessions, 0 = none)
  pending,        \* per call: the completion of _generatePDF's try block
  ops,            \* per call: the collaborator calls made, in order
  faults,         \* per call: the collaborator calls that failed
  sessions,       \* every puppeteer browser launched so far
  nextTaskId,     \* the identifiers uuidv4 has handed out
  fs,             \* the files written: a set of [path, data]
  direct          \* a direct call of one method: its argument and what it returned

vars == <<pc, taskId, options, mergedOptions, progress, result, htmlResult, files, browser,
          pending, ops, faults, sessions, nextTaskId, fs, direct, defaultMargin>>

NoPending == [kind |-> "none", message |-> <<>>, pdfData |-> NoPdf, pageCount |-> 0]

NoResult == EmptyObj

\* no method has been called directly
NoDirect == [fn |-> "none", returned |-> FALSE, arg |-> EmptyObj, ret |-> EmptyObj]

\* no convert call has been made
Idle ==
  /\ defaultMargin = DEFAULT_MARGIN
  /\ pc = [c \in Calls |-> "idle"]
  /\ taskId = [c \in Calls |-> 0]
  /\ options = [c \in Calls |-> EmptyObj]
  /\ mergedOptions = [c \in Calls |-> EmptyObj]
  /\ progress = [c \in Calls |-> <<>>]
  /\ result = [c \in Calls |-> NoResult]
  /\ htmlResult = [c \in Calls |-> <<>>]
  /\ files = [c \in Calls |-> NoFiles]
  /\ browser = [c \in Calls |-> 0]
  /\ pending = [c \in Calls |-> NoPending]
  /\ ops = [c \in Calls |-> <<>>]
  /\ faults = [c \in Calls |-> {}]
  /\ sessions = <<>>
  /\ nextTaskId = 1
  /\ fs = {}

Init == Idle /\ direct = NoDirect

\* ------------------------------------------------------- progress reporting

Ev(status, percent) == [status |-> status, percent |-> percent]

\* the first of the events evs the callback throws on, 0 when none
ThrowIndex(cb, evs) ==
  IF \E i \in 1..Len(evs) : evs[i].status \in cb.throwsOn
  THEN CHOOSE i \in 1..Len(evs) :
         /\ evs[i].status \in cb.throwsOn
         /\ \A j \in 1..(i - 1) : evs[j].status \notin cb.throwsOn
  ELSE 0

\* the task identifier reportProgress stamps on the events of a call
ProgressTaskId(tid) == tid

\* reportProgress for the events evs of one synchronous stretch of code: the
\* events handed to mergedOptions.onProgress (up to the first it throws on)
\* and whether it threw
reportProgress(merged, tid, evs) ==
  IF ~IsDefined(merged, "onProgress")
  THEN [log |-> <<>>, threw |-> FALSE]
  ELSE LET k == ThrowIndex(merged.def.onProgress, evs)
           n == IF k = 0 THEN Len(evs) ELSE k
       IN [log |-> [i \in 1..n |->
                      [taskId |-> ProgressTaskId(tid), status |-> evs[i].status,
                       percent |-> evs[i].percent]],
           threw |-> k # 0]

\* ------------------------------------------------------------------ results

createErrorResult(tid, code, message, cause) ==
  Obj([success |-> FALSE, taskId |-> tid,
       error |-> [code |-> code, message |-> message, cause |-> cause]])

\* a success result that always carries the bytes
SuccessResultAlwaysData(tid, merged, pdfData, pageCount) ==
  LET base == Obj([success |-> TRUE, taskId |-> tid, pageCount |-> pageCount,
                   data |-> pdfData])
  IN IF IsDefined(merged, "outputPath")
     THEN Spread(base, Obj([outputPath |-> merged.def.outputPath]))
     ELSE WithUndefined(base, "outputPath")

\* the object convert returns after a successful render
SuccessResult(tid, merged, pdfData, pageCount) ==
  LET base == Obj([success |-> TRUE, taskId |-> tid, pageCount |-> pageCount])
      withPath == IF IsDefined(merged, "outputPath")
                  THEN Spread(base, Obj([outputPath |-> merged.def.outputPath]))
                  ELSE WithUndefined(base, "outputPath")
  IN IF TruthyStr(merged, "outputPath")
     THEN WithUndefined(withPath, "data")
     ELSE Spread(withPath, Obj([data |-> pdfData]))

\* the code every exception caught by convert is reported with
CatchCode == "PDF_GENERATION_FAILED"

\* a catch block that _writeToFile is not covered by: its error rejects the promise
CatchNotCoveringWrite(c, merged, tid, log, message) ==
  LET r == reportProgress(merged, tid, <<Ev("failed", 0)>>)
  IN /\ progress' = [progress EXCEPT ![c] = log \o r.log]
     /\ IF r.threw \/ message = <<"write-error">>
        THEN /\ pc' = [pc EXCEPT ![c] = "rejected"]
             /\ result' = [result EXCEPT ![c] = NoResult]
        ELSE /\ pc' = [pc EXCEPT ![c] = "resolved"]
             /\ result' = [result EXCEPT ![c] =
                             createErrorResult(tid, CatchCode, message, "Error")]

\* convert's catch block: the failed event, then the error result; an
\* exception of the callback leaves the catch block and rejects the promise
Catch(c, merged, tid, log, message) ==
  LET r == reportProgress(merged, tid, <<Ev("failed", 0)>>)
  IN /\ progress' = [progress EXCEPT ![c] = log \o r.log]
     /\ IF r.threw
        THEN /\ pc' = [pc EXCEPT ![c] = "rejected"]
             /\ result' = [result EXCEPT ![c] = NoResult]
        ELSE /\ pc' = [pc EXCEPT ![c] = "resolved"]
             /\ result' = [result EXCEPT ![c] =
                             createErrorResult(tid, CatchCode, message, "Error")]

\* ----------------------------------------------------------------- convert

Called(c, op) == ops' = [ops EXCEPT ![c] = Append(@, op)]

Failed(c, op) == faults' = [faults EXCEPT ![c] = @ \cup {op}]

\* convert up to its first await: taskId, merge, validation, the first event
\* and the call of the emitter
Start(c, o) ==
  LET tid == nextTaskId
      merged == mergeOptionsCall(o).merged
      validation == validateOptions(merged)
      r == reportProgress(merged, tid, <<Ev("converting-html", 0)>>)
  IN /\ pc[c] = "idle"
     /\ nextTaskId' = nextTaskId + 1
     /\ taskId' = [taskId EXCEPT ![c] = tid]
     /\ options' = [options EXCEPT ![c] = mergeOptionsCall(o).options]
     /\ mergedOptions' = [mergedOptions EXCEPT ![c] = merged]
     /\ IF ~validation.def.valid
        THEN /\ pc' = [pc EXCEPT ![c] = "resolved"]
             /\ result' = [result EXCEPT ![c] =
                  createErrorResult(tid, "INVALID_PAGE_SIZE", validation.def.errors,
                                    "undefined")]
             /\ UNCHANGED <<progress, ops>>
        ELSE IF r.threw
        THEN /\ Catch(c, merged, tid, r.log, <<"callback-error">>)
             /\ UNCHANGED ops
        ELSE /\ progress' = [progress EXCEPT ![c] = r.log]
             /\ pc' = [pc EXCEPT ![c] = "awaitEmitter"]
             /\ Called(c, "emit")
             /\ UNCHANGED result
     /\ UNCHANGED <<files, htmlResult, browser, pending, faults, sessions, fs, direct, defaultMargin>>

\* this._htmlPlugin.convert rejected (or threw)
EmitterThrows(c) ==
  /\ pc[c] = "awaitEmitter"
  /\ Failed(c, "emit")
  /\ Catch(c, mergedOptions[c], taskId[c], progress[c], <<"emitter-error">>)
  /\ UNCHANGED <<taskId, options, mergedOptions, files, htmlResult, browser, pending, ops,
                 sessions, nextTaskId, direct, fs, defaultMargin>>

\* the fallback error of convert's emitter-failure return
EmitterFallbackError ==
  [code |-> "CONV-HTML-002", message |-> <<"html-conversion-failed">>,
   cause |-> "undefined"]

\* an emitter-failure return that always reports the fixed error
EmitterFailureResultFixedError(tid, h) ==
  Obj([success |-> FALSE, taskId |-> tid, error |-> EmitterFallbackError])

\* what convert returns when the emitter reports no usable data
EmitterFailureResult(tid, h) ==
  Obj([success |-> FALSE, taskId |-> tid,
       error |-> IF h.error # NoError THEN h.error ELSE EmitterFallbackError])

\* this._htmlPlugin.convert resolved to htmlResult: either the failed result,
\* or the 30 % event and the import of puppeteer
EmitterReturns(c, h) ==
  LET merged == mergedOptions[c]
      tid == taskId[c]
      bad == ~h.success \/ ~h.hasData
      r == reportProgress(merged, tid,
             IF bad THEN <<Ev("failed", 0)>> ELSE <<Ev("generating-pdf", 30)>>)
  IN /\ pc[c] = "awaitEmitter"
     /\ htmlResult' = [htmlResult EXCEPT ![c] = <<h>>]
     /\ IF bad
        THEN /\ Failed(c, "emit")
             /\ UNCHANGED <<files, ops>>
             /\ IF r.threw
                THEN Catch(c, merged, tid, progress[c] \o r.log, <<"callback-error">>)
                ELSE /\ progress' = [progress EXCEPT ![c] = @ \o r.log]
                     /\ pc' = [pc EXCEPT ![c] = "resolved"]
                     /\ result' = [result EXCEPT ![c] =
                                     EmitterFailureResult(tid, h)]
        ELSE /\ files' = [files EXCEPT ![c] = h.files]
             /\ UNCHANGED faults
             /\ IF r.threw
                THEN /\ Catch(c, merged, tid, progress[c] \o r.log, <<"callback-error">>)
                     /\ UNCHANGED ops
                ELSE /\ progress' = [progress EXCEPT ![c] = @ \o r.log]
                     /\ pc' = [pc EXCEPT ![c] = "awaitImport"]
                     /\ Called(c, "import")
                     /\ UNCHANGED result
     /\ UNCHANGED <<taskId, options, mergedOptions, browser, pending, sessions,
                    nextTaskId, direct, fs, defaultMargin>>

\* ------------------------------------------------------------- _generatePDF

\* the index.html check without the typeof test
HasIndexHtmlOfAnyType(f) ==
  /\ "index.html" \in DOMAIN f
  /\ (f["index.html"].text # <<>> \/ f["index.html"].type = "Uint8Array")

\* files.get('index.html') is a non-empty string
HasIndexHtml(f) ==
  /\ "index.html" \in DOMAIN f
  /\ f["index.html"].type = "string"
  /\ f["index.html"].text # <<>>

\* import('puppeteer') settled: the missing-backend error, the missing
\* index.html error, or puppeteer.launch
ImportReturns(c, ok) ==
  /\ pc[c] = "awaitImport"
  /\ IF ~ok
     THEN /\ Failed(c, "import")
          /\ Catch(c, mergedOptions[c], taskId[c], progress[c], <<"puppeteer-missing">>)
          /\ UNCHANGED ops
     ELSE IF ~HasIndexHtml(files[c])
     THEN /\ Catch(c, mergedOptions[c], taskId[c], progress[c], <<"index-html-missing">>)
          /\ UNCHANGED <<ops, faults>>
     ELSE /\ pc' = [pc EXCEPT ![c] = "awaitLaunch"]
          /\ Called(c, "launch")
          /\ UNCHANGED <<progress, result, faults>>
  /\ UNCHANGED <<taskId, options, mergedOptions, files, htmlResult, browser, pending, sessions,
                 nextTaskId, direct, fs, defaultMargin>>

\* the browser kept in a field of the plugin instance: the last one launched
BrowserOfInstance(c) == Len(sessions)

\* the session a call's finally block closes
BrowserOf(c) == browser[c]

\* browser.close() placed at the end of the try block instead of in finally:
\* an exception skips it
EnterFinallyOnlyOnReturn(c, p) ==
  /\ pending' = [pending EXCEPT ![c] = p]
  /\ sessions' = IF p.kind = "return"
                 THEN [sessions EXCEPT ![BrowserOf(c)].closeCalls = @ + 1]
                 ELSE sessions
  /\ pc' = [pc EXCEPT ![c] = "awaitClose"]
  /\ Called(c, "close")

\* the finally block of _generatePDF is entered with completion p:
\* browser.close() is called
EnterFinally(c, p) ==
  /\ pending' = [pending EXCEPT ![c] = p]
  /\ sessions' = [sessions EXCEPT ![BrowserOf(c)].closeCalls = @ + 1]
  /\ pc' = [pc EXCEPT ![c] = "awaitClose"]
  /\ Called(c, "close")

Throw(message) == [kind |-> "throw", message |-> message, pdfData |-> NoPdf, pageCount |-> 0]

\* puppeteer.launch settled: a new session, and browser.newPage
LaunchReturns(c, ok) ==
  /\ pc[c] = "awaitLaunch"
  /\ IF ~ok
     THEN /\ Failed(c, "launch")
          /\ Catch(c, mergedOptions[c], taskId[c], progress[c], <<"launch-error">>)
          /\ UNCHANGED <<ops, sessions, browser>>
     ELSE /\ sessions' = Append(sessions, [owner |-> c, state |-> "open", closeCalls |-> 0,
                                         printed |-> <<>>])
          /\ browser' = [browser EXCEPT ![c] = Len(sessions) + 1]
          /\ pc' = [pc EXCEPT ![c] = "awaitNewPage"]
          /\ Called(c, "newPage")
          /\ UNCHANGED <<progress, result, faults>>
  /\ UNCHANGED <<taskId, options, mergedOptions, files, htmlResult, pending, nextTaskId, direct, fs, defaultMargin>>

\* the events between browser.newPage and page.setContent
AugmentEvents(merged) ==
  (IF TruthyBool(merged, "includeCover") THEN <<Ev("generating-cover", 40)>> ELSE <<>>)
  \o (IF TruthyBool(merged, "includeTableOfContents")
      THEN <<Ev("generating-toc", 50)>> ELSE <<>>)
  \o <<Ev("generating-pdf", 60)>>

\* browser.newPage settled: inlining, cover, TOC, print styles, the 60 % event
\* and page.setContent
NewPageReturns(c, ok) ==
  LET r == reportProgress(mergedOptions[c], taskId[c], AugmentEvents(mergedOptions[c]))
  IN /\ pc[c] = "awaitNewPage"
     /\ IF ~ok
        THEN /\ Failed(c, "newPage")
             /\ EnterFinally(c, Throw(<<"newPage-error">>))
             /\ UNCHANGED progress
        ELSE /\ progress' = [progress EXCEPT ![c] = @ \o r.log]
             /\ UNCHANGED faults
             /\ IF r.threw
                THEN EnterFinally(c, Throw(<<"callback-error">>))
                ELSE /\ pc' = [pc EXCEPT ![c] = "awaitSetContent"]
                     /\ Called(c, "setContent")
                     /\ UNCHANGED <<pending, sessions>>
     /\ UNCHANGED <<taskId, options, mergedOptions, result, files, htmlResult, browser,
                    nextTaskId, direct, fs, defaultMargin>>

\* _getPageDimensions that already turns the page for landscape
GetPageDimensionsOriented(opts) ==
  LET w == IF IsDefined(opts, "width") THEN opts.def.width ELSE "210mm"
      h == IF IsDefined(opts, "height") THEN opts.def.height ELSE "297mm"
      d == IF IsDefined(opts, "pageSize") /\ opts.def.pageSize # "custom"
           THEN PAGE_SIZE_MAP[opts.def.pageSize]
           ELSE IF IsDefined(opts, "pageSize") THEN [width |-> w, height |-> h]
           ELSE PAGE_SIZE_MAP["A4"]
  IN IF IsDefined(opts, "orientation") /\ opts.def.orientation = "landscape"
     THEN Obj([width |-> d.height, height |-> d.width])
     ELSE Obj(d)

\* _getPageDimensions: the custom pair (with its fallbacks) or the table entry;
\* a name PAGE_SIZE_MAP only inherits has neither width nor height
GetPageDimensions(opts) ==
  LET pageSize == IF IsDefined(opts, "pageSize") THEN opts.def.pageSize ELSE "A4"
  IN IF pageSize = "custom"
     THEN Obj([width |-> IF IsDefined(opts, "width") THEN opts.def.width ELSE "210mm",
               height |-> IF IsDefined(opts, "height") THEN opts.def.height ELSE "297mm"])
     ELSE IF pageSize \in DOMAIN PAGE_SIZE_MAP THEN Obj(PAGE_SIZE_MAP[pageSize])
     ELSE EmptyObj

\* o[k] copied under the key name: { name: o[k] }
Prop(name, o, k) ==
  IF IsDefined(o, k) THEN [def |-> (name :> o.def[k]), und |-> {}]
  ELSE [def |-> <<>>, und |-> {name}]

\* const pdfOptions: the object handed to page.pdf
PdfOptions(opts) ==
  LET pageDimensions == GetPageDimensions(opts)
      isLandscape == IsDefined(opts, "orientation") /\ opts.def.orientation = "landscape"
  IN Spread(
       Spread(Obj([printBackground |-> IF IsDefined(opts, "printBackground")
                                       THEN opts.def.printBackground ELSE TRUE,
                   scale |-> IF IsDefined(opts, "scale") THEN opts.def.scale ELSE 1,
                   landscape |-> isLandscape]),
              Prop("margin", opts, "margin")),
       Spread(Prop("width", pageDimensions, IF isLandscape THEN "height" ELSE "width"),
              Prop("height", pageDimensions, IF isLandscape THEN "width" ELSE "height")))

\* the 80 % event and page.pdf(pdfOptions)
RequestPdf(c) ==
  LET r == reportProgress(mergedOptions[c], taskId[c], <<Ev("generating-pdf", 80)>>)
  IN /\ progress' = [progress EXCEPT ![c] = @ \o r.log]
     /\ IF r.threw
        THEN EnterFinally(c, Throw(<<"callback-error">>))
        ELSE /\ pc' = [pc EXCEPT ![c] = "awaitPdf"]
             /\ Called(c, "pdf")
             /\ sessions' = [sessions EXCEPT ![browser[c]].printed =
                               Append(@, PdfOptions(mergedOptions[c]))]
             /\ UNCHANGED pending

\* const waitTime = options.waitTime ?? 1000
WaitTime(merged) == IF IsDefined(merged, "waitTime") THEN merged.def.waitTime ELSE 1000

\* a load whose timeout is not taken for a failure: the call goes on to print
SetContentIgnoringTimeout(c, outcome) ==
  /\ pc[c] = "awaitSetContent"
  /\ IF outcome = "error"
     THEN /\ Failed(c, "setContent")
          /\ EnterFinally(c, Throw(<<"load-" \o outcome>>))
          /\ UNCHANGED progress
     ELSE /\ IF outcome = "timeout" THEN Failed(c, "setContent") ELSE UNCHANGED faults
          /\ IF WaitTime(mergedOptions[c]) > 0
             THEN /\ pc' = [pc EXCEPT ![c] = "awaitSettle"]
                  /\ Called(c, "settle")
                  /\ UNCHANGED <<progress, pending, sessions>>
             ELSE RequestPdf(c)
  /\ UNCHANGED <<taskId, options, mergedOptions, result, files, htmlResult, browser,
                 nextTaskId, direct, fs, defaultMargin>>

\* page.setContent settled ("ok", "timeout" after 30 s, or another "error")
SetContentReturns(c, outcome) ==
  /\ pc[c] = "awaitSetContent"
  /\ IF outcome # "ok"
     THEN /\ Failed(c, "setContent")
          /\ EnterFinally(c, Throw(<<"load-" \o outcome>>))
          /\ UNCHANGED progress
     ELSE /\ UNCHANGED faults
          /\ IF WaitTime(mergedOptions[c]) > 0
             THEN /\ pc' = [pc EXCEPT ![c] = "awaitSettle"]
                  /\ Called(c, "settle")
                  /\ UNCHANGED <<progress, pending, sessions>>
             ELSE RequestPdf(c)
  /\ UNCHANGED <<taskId, options, mergedOptions, result, files, htmlResult, browser,
                 nextTaskId, direct, fs, defaultMargin>>

\* the setTimeout of waitTime ms fired
SettleElapsed(c) ==
  /\ pc[c] = "awaitSettle"
  /\ RequestPdf(c)
  /\ UNCHANGED <<taskId, options, mergedOptions, result, files, htmlResult, browser, faults,
                 nextTaskId, direct, fs, defaultMargin>>

\* page.pdf settled: the bytes, and _estimatePageCount's page.evaluate
PdfReturns(c, ok) ==
  /\ pc[c] = "awaitPdf"
  /\ IF ~ok
     THEN /\ Failed(c, "pdf")
          /\ EnterFinally(c, Throw(<<"pdf-error">>))
     ELSE /\ pending' = [pending EXCEPT ![c].pdfData = PdfBytes(browser[c])]
          /\ pc' = [pc EXCEPT ![c] = "awaitEvaluate"]
          /\ Called(c, "evaluate")
          /\ UNCHANGED <<faults, sessions>>
  /\ UNCHANGED <<taskId, options, mergedOptions, progress, result, files, htmlResult, browser,
                 nextTaskId, direct, fs, defaultMargin>>

\* Math.ceil(pageHeight / 1000)
CeilPages(pageHeight) == (pageHeight + 999) \div 1000

Max(a, b) == IF a >= b THEN a ELSE b

\* page.evaluate failed
EvaluateThrows(c) ==
  /\ pc[c] = "awaitEvaluate"
  /\ Failed(c, "evaluate")
  /\ EnterFinally(c, Throw(<<"evaluate-error">>))
  /\ UNCHANGED <<taskId, options, mergedOptions, progress, result, files, htmlResult, browser,
                 nextTaskId, direct, fs, defaultMargin>>

\* page.evaluate measured pageHeight: the try block returns
EvaluateReturns(c, pageHeight) ==
  /\ pc[c] = "awaitEvaluate"
  /\ EnterFinally(c, [kind |-> "return", message |-> <<>>,
                      pdfData |-> pending[c].pdfData,
                      pageCount |-> Max(1, CeilPages(pageHeight))])
  /\ UNCHANGED <<taskId, options, mergedOptions, progress, result, files, htmlResult, browser,
                 faults, nextTaskId, direct, fs, defaultMargin>>

\* convert after a successful render and after any file write: the completed
\* event and the result
Complete(c) ==
  LET merged == mergedOptions[c]
      tid == taskId[c]
      r == reportProgress(merged, tid, <<Ev("completed", 100)>>)
  IN IF r.threw
     THEN Catch(c, merged, tid, progress[c] \o r.log, <<"callback-error">>)
     ELSE /\ progress' = [progress EXCEPT ![c] = @ \o r.log]
          /\ pc' = [pc EXCEPT ![c] = "resolved"]
          /\ result' = [result EXCEPT ![c] =
               SuccessResult(tid, merged, pending[c].pdfData, pending[c].pageCount)]

\* browser.close settled; st is the state a failing close leaves the session in
CloseReturns(c, ok, st) ==
  /\ pc[c] = "awaitClose"
  /\ ok => st = "closed"
  /\ sessions' = [sessions EXCEPT ![BrowserOf(c)].state = st]
  /\ IF ~ok
     THEN /\ Failed(c, "close")
          /\ Catch(c, mergedOptions[c], taskId[c], progress[c], <<"close-error">>)
          /\ UNCHANGED ops
     ELSE /\ UNCHANGED faults
          /\ IF pending[c].kind = "throw"
             THEN /\ Catch(c, mergedOptions[c], taskId[c], progress[c], pending[c].message)
                  /\ UNCHANGED ops
             ELSE IF TruthyStr(mergedOptions[c], "outputPath")
             THEN /\ pc' = [pc EXCEPT ![c] = "awaitWrite"]
                  /\ Called(c, "write")
                  /\ UNCHANGED <<progress, result>>
             ELSE /\ Complete(c)
                  /\ UNCHANGED ops
  /\ UNCHANGED <<taskId, options, mergedOptions, files, htmlResult, browser, pending,
                 nextTaskId, direct, fs, defaultMargin>>

\* _writeToFile settled (mkdir and writeFile, or the not-Node.js error)
WriteReturns(c, ok) ==
  /\ pc[c] = "awaitWrite"
  /\ IF ~ok
     THEN /\ Failed(c, "write")
          /\ Catch(c, mergedOptions[c], taskId[c], progress[c], <<"write-error">>)
          /\ UNCHANGED fs
     ELSE /\ fs' = {f \in fs : f.path # mergedOptions[c].def.outputPath}
                     \cup {[path |-> mergedOptions[c].def.outputPath,
                            data |-> pending[c].pdfData]}
          /\ Complete(c)
          /\ UNCHANGED faults
  /\ UNCHANGED <<taskId, options, mergedOptions, files, htmlResult, browser, pending, ops,
                 sessions, nextTaskId, direct, defaultMargin>>

\* one step of call c
Step(c) ==
  \/ EmitterThrows(c)
  \/ \E h \in EmitterResults : EmitterReturns(c, h)
  \/ \E ok \in BOOLEAN : ImportReturns(c, ok)
  \/ \E ok \in BOOLEAN : LaunchReturns(c, ok)
  \/ \E ok \in BOOLEAN : NewPageReturns(c, ok)
  \/ \E outcome \in {"ok", "timeout", "error"} : SetContentReturns(c, outcome)
  \/ SettleElapsed(c)
  \/ \E ok \in BOOLEAN : PdfReturns(c, ok)
  \/ EvaluateThrows(c)
  \/ \E pageHeight \in PageHeights : EvaluateReturns(c, pageHeight)
  \/ \E ok \in BOOLEAN, st \in {"open", "closed"} : CloseReturns(c, ok, st)
  \/ \E ok \in BOOLEAN : WriteReturns(c, ok)

\* one convert call, with every kind of options
Next ==
  \/ \E o \in ConvertOptions : Start(1, o)
  \/ Step(1)

Spec == Init /\ [][Next]_vars

\* the emitter's result for a card that converts
GoodEmitterResult ==
  [success |-> TRUE, hasData |-> TRUE, error |-> NoError,
   files |-> ("index.html" :> TextContent(IndexHtmlText))]

\* one step of call c when the only failure is a document-load timeout
StepConcurrent(c) ==
  \/ EmitterReturns(c, GoodEmitterResult)
  \/ ImportReturns(c, TRUE)
  \/ LaunchReturns(c, TRUE)
  \/ NewPageReturns(c, TRUE)
  \/ \E outcome \in {"ok", "timeout"} : SetContentReturns(c, outcome)
  \/ SettleElapsed(c)
  \/ PdfReturns(c, TRUE)
  \/ EvaluateReturns(c, 1000)
  \/ CloseReturns(c, TRUE, "closed")
  \/ WriteReturns(c, TRUE)

\* concurrent convert calls on one instance
NextConcurrent ==
  \/ \E c \in Calls, o \in ConcurrentOptions : Start(c, o)
  \/ \E c \in Calls : StepConcurrent(c)

SpecConcurrent == Init /\ [][NextConcurrent]_vars

\* convert calls on one instance, every collaborator failure possible
NextFaulty ==
  \/ \E c \in Calls, o \in ConcurrentOptions : Start(c, o)
  \/ \E c \in Calls : Step(c)

SpecFaulty == Init /\ [][NextFaulty]_vars

\* --------------------------------------------------------------- documents
\* An HTML string is the sequence of its tokens: opening and closing tags,
\* whole heading and style elements, text.  A path is the sequence of its
\* pieces ("css/", "big-", "logo", ".png"), so that one path can end in
\* another.

NoUrl == [mime |-> "", base64 |-> <<>>]

Tok(kind, name) ==
  [kind |-> kind, name |-> name, level |-> 0, attr |-> "", value |-> <<>>,
   url |-> NoUrl, text |-> <<>>, num |-> 0]

\* <name>
Open(name) == Tok("open", name)

\* </name>
Close(name) == Tok("close", name)

\* <name class="class" ...>
OpenClass(name, class) == [Tok("open", name) EXCEPT !.attr = "class", !.value = <<class>>]

\* <hN ...>text</hN>, the text free of tags
Heading(level, text) == [Tok("heading", "h") EXCEPT !.level = level, !.text = text]

Text(t) == [Tok("text", "") EXCEPT !.text = t]

\* <name attr="path" ...>
Ref(name, attr, path) == [Tok("open", name) EXCEPT !.attr = attr, !.value = path]

\* <style type="text/css">\n css \n</style>
Style(css) == [Tok("style", "style") EXCEPT !.text = css]

EndsWith(s, suffix) ==
  /\ Len(suffix) <= Len(s)
  /\ SubSeq(s, Len(s) - Len(suffix) + 1, Len(s)) = suffix

\* the pieces of a path that end in "/"
Dirs == {"a/", "b/", "css/"}

\* filePath.split('/').pop()
Filename(path) ==
  LET slashes == {i \in 1..Len(path) : path[i] \in Dirs}
      last == IF slashes = {} THEN 0
              ELSE CHOOSE i \in slashes : \A j \in slashes : j <= i
  IN SubSeq(path, last + 1, Len(path))

ThemeCssPath == <<"theme", ".css">>

\* filePath.endsWith('.css')
IsCssPath(path) == Len(path) > 0 /\ path[Len(path)] = ".css"

ImageExtensions == {".png", ".jpg", ".jpeg", ".gif", ".webp", ".svg", ".ico", ".bmp"}

\* _isImagePath
IsImagePath(path) == Len(path) > 0 /\ path[Len(path)] \in ImageExtensions

\* _getMimeType
GetMimeType(path) ==
  LET ext == IF Len(path) > 0 THEN path[Len(path)] ELSE ""
  IN CASE ext = ".png" -> "image/png"
       [] ext \in {".jpg", ".jpeg"} -> "image/jpeg"
       [] ext = ".gif" -> "image/gif"
       [] ext = ".webp" -> "image/webp"
       [] ext = ".svg" -> "image/svg+xml"
       [] ext = ".ico" -> "image/x-icon"
       [] ext = ".bmp" -> "image/bmp"
       [] OTHER -> "application/octet-stream"

\* the base64 digits (0..63, and 64 for the padding '=') of up to three bytes
Base64Group(b) ==
  LET n == b[1] * 65536 + (IF Len(b) > 1 THEN b[2] * 256 ELSE 0)
             + (IF Len(b) > 2 THEN b[3] ELSE 0)
  IN <<n \div 262144, (n \div 4096) % 64,
       IF Len(b) > 1 THEN (n \div 64) % 64 ELSE 64,
       IF Len(b) > 2 THEN n % 64 ELSE 64>>

RECURSIVE Uint8ArrayToBase64(_)
\* _uint8ArrayToBase64
Uint8ArrayToBase64(bytes) ==
  IF Len(bytes) = 0 THEN <<>>
  ELSE IF Len(bytes) <= 3 THEN Base64Group(bytes)
  ELSE Base64Group(SubSeq(bytes, 1, 3)) \o Uint8ArrayToBase64(SubSeq(bytes, 4, Len(bytes)))

\* result.replace(/<link[^>]*href=["'][^"']*filename["'][^>]*>/gi, styleTag)
ReplaceLinks(html, filename, css) ==
  [i \in 1..Len(html) |->
     IF /\ html[i].kind = "open"
        /\ html[i].name = "link"
        /\ html[i].attr = "href"
        /\ EndsWith(html[i].value, filename)
     THEN Style(css)
     ELSE html[i]]

\* result.replace(/(src|href)=["']([^"']*filename)["']/gi, `$1="${dataUrl}"`)
ReplaceRefs(html, filename, dataUrl) ==
  [i \in 1..Len(html) |->
     IF html[i].attr \in {"src", "href"} /\ EndsWith(html[i].value, filename)
     THEN [html[i] EXCEPT !.value = <<>>, !.url = dataUrl]
     ELSE html[i]]

\* the first pass of _inlineResources: files.get('theme.css')
InlineThemeCss(html, assets) ==
  IF \E k \in 1..Len(assets) :
       /\ assets[k].path = ThemeCssPath
       /\ assets[k].content.type = "string"
       /\ assets[k].content.text # <<>>
  THEN LET k == CHOOSE k \in 1..Len(assets) : assets[k].path = ThemeCssPath
       IN ReplaceLinks(html, ThemeCssPath, assets[k].content.text)
  ELSE html

RECURSIVE InlineCssFrom(_, _, _)
\* the second pass, from the k-th entry of the map on: the other CSS files
InlineCssFrom(html, assets, k) ==
  IF k > Len(assets) THEN html
  ELSE LET e == assets[k]
           next == IF /\ e.content.type = "string"
                      /\ IsCssPath(e.path)
                      /\ e.path # ThemeCssPath
                   THEN ReplaceLinks(html, Filename(e.path), e.content.text)
                   ELSE html
       IN InlineCssFrom(next, assets, k + 1)

\* the data: URL of a binary image entry
DataUrl(e) == [mime |-> GetMimeType(e.path), base64 |-> Uint8ArrayToBase64(e.content.bytes)]

RECURSIVE InlineImagesFrom(_, _, _)
\* the third pass, from the k-th entry of the map on: the images
InlineImagesFrom(html, assets, k) ==
  IF k > Len(assets) THEN html
  ELSE LET e == assets[k]
           next == IF e.content.type = "Uint8Array" /\ IsImagePath(e.path)
                   THEN ReplaceRefs(html, Filename(e.path), DataUrl(e))
                   ELSE html
       IN InlineImagesFrom(next, assets, k + 1)

\* _inlineResources; the map is the sequence of its entries in insertion order
InlineResources(html, assets) ==
  InlineImagesFrom(InlineCssFrom(InlineThemeCss(html, assets), assets, 1), assets, 1)

\* <title>text</title>
Title(text) == [Tok("title", "title") EXCEPT !.text = text]

\* a number written into the document
Number(n) == [Tok("text", "") EXCEPT !.num = n]

\* _escapeHtml, piece by piece
EscapeHtml(text) ==
  [i \in 1..Len(text) |->
     CASE text[i] = "&" -> "&amp;"
       [] text[i] = "<" -> "&lt;"
       [] text[i] = ">" -> "&gt;"
       [] text[i] = "\"" -> "&quot;"
       [] text[i] = "'" -> "&#39;"
       [] OTHER -> text[i]]

RECURSIVE Trim(_)
\* String.prototype.trim, the blank pieces being " "
Trim(text) ==
  IF Len(text) = 0 THEN text
  ELSE IF text[1] = " " THEN Trim(SubSeq(text, 2, Len(text)))
  ELSE IF text[Len(text)] = " " THEN Trim(SubSeq(text, 1, Len(text) - 1))
  ELSE text

\* the name used when the card has none
UnnamedCard == <<"unnamed-card">>

\* _extractMetadata: the name is the text of the first <title> of index.html
ExtractMetadata(indexHtml) ==
  LET titles == {i \in 1..Len(indexHtml) : indexHtml[i].kind = "title"}
  IN Obj([name |-> IF titles = {} THEN UnnamedCard
                   ELSE indexHtml[CHOOSE i \in titles : \A j \in titles : i <= j].text,
          createdAt |-> "now", version |-> <<"1.0.0">>])

DEFAULT_COVER_CONFIG ==
  Obj([enabled |-> TRUE, showAuthor |-> TRUE, showDate |-> TRUE, showVersion |-> FALSE])

DEFAULT_TOC_CONFIG ==
  Obj([enabled |-> FALSE, title |-> <<"contents">>, maxDepth |-> 3,
       showPageNumbers |-> TRUE])

\* a[ka] ?? b[kb] ?? c
Coalesce(a, ka, b, kb, c) ==
  IF IsDefined(a, ka) THEN a.def[ka] ELSE IF IsDefined(b, kb) THEN b.def[kb] ELSE c

\* the custom template with its {{title}} placeholders filled in
FillTemplate(template, title) ==
  [i \in 1..Len(template) |->
     IF template[i].kind = "text" /\ template[i].text = <<"{{title}}">>
     THEN Text(title)
     ELSE template[i]]

\* _generateCoverHTML
GenerateCoverHTML(metadata, config) ==
  LET theTitle == Coalesce(config, "title", metadata, "name", UnnamedCard)
      subtitle == Coalesce(config, "subtitle", metadata, "description", <<>>)
      metaItems ==
        (IF TruthyBool(config, "showAuthor") THEN <<"author">> ELSE <<>>)
        \o (IF TruthyBool(config, "showDate") THEN <<"date">> ELSE <<>>)
        \o (IF TruthyBool(config, "showVersion") THEN <<"version">> ELSE <<>>)
  IN IF TruthySeq(config, "customTemplate")
     THEN FillTemplate(config.def.customTemplate, theTitle)
     ELSE <<OpenClass("div", "chips-pdf-cover"), Heading(1, EscapeHtml(theTitle))>>
          \o (IF subtitle # <<>>
              THEN <<Open("p"), Text(EscapeHtml(subtitle)), Close("p")>> ELSE <<>>)
          \o (IF Len(metaItems) > 0
              THEN <<Open("div"), Text(metaItems), Close("div")>> ELSE <<>>)
          \o <<Close("div")>>

\* the heading elements of html, in order
Headings(html) == SelectSeq(html, LAMBDA t : t.kind = "heading")

\* one entry of the table of contents
TOCEntry(heading, index, config) ==
  <<[Open("div") EXCEPT !.attr = "padding-left", !.num = (heading.level - 1) * 20],
    Open("span"), Text(EscapeHtml(Trim(heading.text))), Close("span")>>
  \o (IF TruthyBool(config, "showPageNumbers")
      THEN <<Open("span"), Number(index + 2), Close("span")>> ELSE <<>>)
  \o <<Close("div")>>

RECURSIVE TOCEntriesFrom(_, _, _)
\* headings.forEach((heading, index) => ...), index counting from 0
TOCEntriesFrom(headings, k, config) ==
  IF k > Len(headings) THEN <<>>
  ELSE TOCEntry(headings[k], k - 1, config) \o TOCEntriesFrom(headings, k + 1, config)

\* _generateTOCHTML
GenerateTOCHTML(html, config) ==
  LET maxDepth == IF IsDefined(config, "maxDepth") THEN config.def.maxDepth ELSE 3
      headings == SelectSeq(Headings(html), LAMBDA t : t.level <= maxDepth)
      title == IF IsDefined(config, "title") THEN config.def.title ELSE <<"contents">>
  IN <<OpenClass("div", "chips-pdf-toc"), Heading(1, EscapeHtml(title)),
       OpenClass("div", "toc-entries")>>
     \o TOCEntriesFrom(headings, 1, config)
     \o <<Close("div"), Close("div")>>

\* the position of the first token of html from position from on that
\* is among the positions matches, 0 when there is none
IndexOf(html, from, matches) ==
  LET found == {i \in from..Len(html) : i \in matches}
  IN IF found = {} THEN 0 ELSE CHOOSE i \in found : \A j \in found : i <= j

\* block inserted into html right after position at
InsertAfter(html, at, block) ==
  SubSeq(html, 1, at) \o block \o SubSeq(html, at + 1, Len(html))

IsBodyTag(t) == t.kind = "open" /\ t.name = "body"

\* html.replace(/<body[^>]*>/i, (match) => `${match}\n${block}`)
InsertAfterBody(html, block) ==
  LET body == IndexOf(html, 1, {p \in DOMAIN html : IsBodyTag(html[p])})
  IN IF body = 0 THEN html ELSE InsertAfter(html, body, block)

\* _insertCover
InsertCover(html, coverHtml) == InsertAfterBody(html, coverHtml)

\* the token holds the text 'chips-pdf-cover'
MentionsCover(t) ==
  \/ \E i \in 1..Len(t.value) : t.value[i] = "chips-pdf-cover"
  \/ \E i \in 1..Len(t.text) : t.text[i] = "chips-pdf-cover"

IsDivEnd(t) == t.kind = "close" /\ t.name = "div"

\* _insertTOC: html.indexOf('</div>', html.indexOf('chips-pdf-cover')); a
\* start of -1 is a search from the beginning
InsertTOC(html, tocHtml) ==
  LET cover == IndexOf(html, 1, {p \in DOMAIN html : MentionsCover(html[p])})
      coverEndIndex == IndexOf(html, IF cover = 0 THEN 1 ELSE cover, {p \in DOMAIN html : IsDivEnd(html[p])})
  IN IF coverEndIndex # 0
     THEN InsertAfter(html, coverEndIndex, tocHtml)
     ELSE InsertAfterBody(html, tocHtml)

\* `${options[k]}`
Interpolated(o, k) == IF IsDefined(o, k) THEN o.def[k] ELSE "undefined"

\* options.margin?.[side] ?? '20mm'
PrintMargin(opts, side) ==
  IF IsDefined(opts, "margin") /\ IsDefined(opts.def.margin, side)
  THEN opts.def.margin.def[side] ELSE MM20

\* const printStyles
PrintStyles(opts) ==
  [Style(<<"@page", "size">>
         \o (IF IsDefined(opts, "pageSize") /\ opts.def.pageSize = "custom"
             THEN <<Interpolated(opts, "width"), Interpolated(opts, "height")>>
             ELSE <<Interpolated(opts, "pageSize")>>)
         \o <<Interpolated(opts, "orientation"), "margin">>
         \o PrintMargin(opts, "top") \o PrintMargin(opts, "right")
         \o PrintMargin(opts, "bottom") \o PrintMargin(opts, "left")
         \o <<".", "chips-pdf-cover", ".", "chips-pdf-toc">>)
   EXCEPT !.attr = "media", !.value = <<"print">>]

IsHeadEnd(t) == t.kind = "close" /\ t.name = "head"

\* _addPrintStyles: html.replace('</head>', `${printStyles}\n</head>`)
AddPrintStyles(html, opts) ==
  LET head == IndexOf(html, 1, {p \in DOMAIN html : IsHeadEnd(html[p])})
  IN IF head = 0 THEN html ELSE InsertAfter(html, head - 1, <<PrintStyles(opts)>>)

\* a configuration whose absent keys are filled from the default one
ConfigOrFilled(opts, k, dflt) ==
  IF IsDefined(opts, k) THEN Spread(dflt, opts.def[k]) ELSE dflt

\* options[k] ?? dflt for a configuration object
ConfigOr(opts, k, dflt) == IF IsDefined(opts, k) THEN opts.def[k] ELSE dflt

\* _generatePDF from _inlineResources to _addPrintStyles: the document handed
\* to page.setContent, with the cover and the TOC that went into it and the
\* events handed to reportProgress on the way
BuildHtml(indexHtml, assets, opts, metadata) ==
  LET inlined == InlineResources(indexHtml, assets)
      coverHtml == IF TruthyBool(opts, "includeCover")
                   THEN GenerateCoverHTML(metadata,
                                          ConfigOr(opts, "coverConfig", DEFAULT_COVER_CONFIG))
                   ELSE <<>>
      withCover == IF TruthyBool(opts, "includeCover")
                   THEN InsertCover(inlined, coverHtml) ELSE inlined
      tocHtml == IF TruthyBool(opts, "includeTableOfContents")
                 THEN GenerateTOCHTML(withCover,
                                      ConfigOr(opts, "tocConfig", DEFAULT_TOC_CONFIG))
                 ELSE <<>>
      withTOC == IF TruthyBool(opts, "includeTableOfContents")
                 THEN InsertTOC(withCover, tocHtml) ELSE withCover
  IN [coverHtml |-> coverHtml, tocHtml |-> tocHtml, withCover |-> withCover,
      fullHtml |-> AddPrintStyles(withTOC, opts), events |-> AugmentEvents(opts)]

\* ------------------------------------------------------------ direct calls
\* The public and pure methods called on their own: Init draws the argument,
\* the action applies the method.

convertVars == <<pc, taskId, options, mergedOptions, progress, result, htmlResult,
                 files, browser, pending, ops, faults, sessions, nextTaskId, fs,
                 defaultMargin>>

\* the method fn is called with argument arg
DirectCall(fn, arg) == [fn |-> fn, returned |-> FALSE, arg |-> arg, ret |-> EmptyObj]

\* the pending direct call of fn returns ret
Return(fn, ret) ==
  /\ direct.fn = fn
  /\ ~direct.returned
  /\ direct' = [direct EXCEPT !.returned = TRUE, !.ret = ret]
  /\ UNCHANGED convertVars

Returned(fn) == direct.fn = fn /\ direct.returned

PageSizeInputs ==
  {EmptyObj} \cup
  {Obj([pageSize |-> p]) : p \in {"A4", "Tabloid", "custom", "B5", "constructor"}}

CustomSizeInputs ==
  {EmptyObj, Obj([width |-> "100mm"]), Obj([width |-> "100mm", height |-> "50mm"])}

OrientationInputs ==
  {EmptyObj} \cup {Obj([orientation |-> x]) : x \in {"portrait", "landscape", "diagonal"}}

ScaleInputs ==
  {EmptyObj, WithUndefined(EmptyObj, "scale")} \cup
  {Obj([scale |-> x]) : x \in {-1, 0, 1, 2, 3}}

MarginInputs ==
  {EmptyObj,
   Obj([margin |-> Obj([top |-> MM20])]),
   Obj([margin |-> Obj([top |-> <<"2", "0">>, left |-> <<"w", "i", "d", "e">>])]),
   Obj([margin |-> Obj([right |-> <<"1", ".", "5", "i", "n">>, bottom |-> <<>>])]),
   Obj([margin |-> Obj([top |-> <<"1", "5", "p", "x">>, right |-> <<"m", "m">>,
                        bottom |-> <<"2", ".", "m", "m">>, left |-> <<"2", "0", "%">>])])}

WaitTimeInputs == {EmptyObj} \cup {Obj([waitTime |-> x]) : x \in {-1, 0, 1000}}

\* the options objects validateOptions is called with
ValidateInputs ==
  {Spread(Spread(Spread(p, c), Spread(o, s)), Spread(m, w)) :
     p \in PageSizeInputs, c \in CustomSizeInputs, o \in OrientationInputs,
     s \in ScaleInputs, m \in MarginInputs, w \in WaitTimeInputs}

InitValidate ==
  /\ Idle
  /\ \E o \in ValidateInputs : direct = DirectCall("validateOptions", o)

NextValidate == Return("validateOptions", validateOptions(direct.arg))

\* plugin.validateOptions(options) for every kind of options
SpecValidate == InitValidate /\ [][NextValidate]_vars

\* keys the caller passes with the value undefined, and flags
UndefinedInputs ==
  {EmptyObj,
   WithUndefined(EmptyObj, "pageSize"),
   WithUndefined(WithUndefined(EmptyObj, "includeCover"), "waitTime"),
   Obj([margin |-> WithUndefined(Obj([left |-> <<"5", "m", "m">>]), "top")]),
   WithUndefined(EmptyObj, "margin"),
   Obj([includeCover |-> FALSE, includeTableOfContents |-> TRUE,
        printBackground |-> FALSE, waitTime |-> 0, orientation |-> "landscape"])}

\* the options objects _mergeOptions is called with ({} also stands for the
\* omitted argument: spreading undefined adds nothing)
MergeInputs ==
  {Spread(Spread(Spread(p, c), Spread(s, m)), u) :
     p \in PageSizeInputs, c \in CustomSizeInputs, s \in ScaleInputs,
     m \in MarginInputs, u \in UndefinedInputs}

InitMerge ==
  /\ Idle
  /\ \E o \in MergeInputs : direct = DirectCall("_mergeOptions", o)

\* this.validateOptions(mergedOptions), as convert calls it after the merge
ValidateMerged ==
  /\ Returned("_mergeOptions")
  /\ direct' = [direct EXCEPT !.fn = "validateOptions",
                              !.ret = Obj([mergedOptions |-> direct.ret,
                                           validation |-> validateOptions(direct.ret)])]
  /\ UNCHANGED convertVars

NextMerge ==
  \/ Return("_mergeOptions", MergeOptions(direct.arg))
  \/ ValidateMerged

\* _mergeOptions(options), then validateOptions of the merged options
SpecMerge == InitMerge /\ [][NextMerge]_vars

\* the sides a caller's margin sets, each to a value of its own
SideValue ==
  [top |-> <<"1", "m", "m">>, right |-> <<"2", "m", "m">>,
   bottom |-> <<"3", "m", "m">>, left |-> <<"4", "m", "m">>]

MarginOf(sides) == Obj([k \in sides |-> SideValue[k]])

\* the options of convert calls that set a margin: every subset of the sides
MarginOptions ==
  {Spread(Obj([margin |-> MarginOf(sides)]), x) :
     sides \in SUBSET {"top", "right", "bottom", "left"},
     x \in {EmptyObj,
            Obj([outputPath |-> "out/card.pdf", onProgress |-> [throwsOn |-> {}]])}}

InitMargin ==
  /\ Idle
  /\ \E o \in MarginOptions : direct = DirectCall("convert", o)

\* plugin.convert(source, options), the caller keeping its options object
NextOneCall ==
  \/ Start(1, direct.arg)
  \/ StepConcurrent(1)

SpecMargin == InitMargin /\ [][NextOneCall]_vars

\* page sizes of convert calls: every preset, and custom pairs
GeometrySizes ==
  {Obj([pageSize |-> p]) : p \in DOMAIN PAGE_SIZE_MAP} \cup
  {Obj([pageSize |-> "custom", width |-> wh[1], height |-> wh[2]]) :
     wh \in {<<"100mm", "50mm">>, <<"50mm", "100mm">>, <<"80mm", "80mm">>}}

\* the options of convert calls that choose a page geometry
GeometryOptions ==
  {Spread(Spread(g, o), x) :
     g \in GeometrySizes,
     o \in {EmptyObj, Obj([orientation |-> "portrait"]), Obj([orientation |-> "landscape"])},
     x \in {EmptyObj,
            Obj([outputPath |-> "out/card.pdf", onProgress |-> [throwsOn |-> {}]])}}

InitGeometry ==
  /\ Idle
  /\ \E o \in GeometryOptions : direct = DirectCall("convert", o)

\* plugin.convert(source, options) for every page geometry
SpecGeometry == InitGeometry /\ [][NextOneCall]_vars

Asset(path, content) == [path |-> path, content |-> content]

\* the assets an emitter's map may hold besides the root document
AssetPool ==
  {Asset(ThemeCssPath, TextContent(<<"body{}">>)),
   Asset(<<"css/", "main", ".css">>, TextContent(<<"h1{}">>)),
   Asset(<<"logo", ".png">>, BinaryContent(<<137, 80, 78>>)),
   Asset(<<"big-", "logo", ".png">>, BinaryContent(<<255, 216>>)),
   Asset(<<"a/", "icon", ".jpg">>, BinaryContent(<<71>>)),
   Asset(<<"b/", "icon", ".jpg">>, BinaryContent(<<0, 16, 131, 255>>))}

\* asset maps: up to three entries of the pool in any insertion order
AssetMaps ==
  {<<>>} \cup {<<a>> : a \in AssetPool}
  \cup {m \in {<<a, b>> : a, b \in AssetPool} : m[1] # m[2]}
  \cup {m \in {<<a, b, c>> : a, b, c \in AssetPool} :
          m[1] # m[2] /\ m[1] # m[3] /\ m[2] # m[3]}

\* a root document that refers to every asset of the pool by its path
AssetDocument ==
  <<Open("html"), Open("head"),
    Ref("link", "href", ThemeCssPath),
    Ref("link", "href", <<"css/", "main", ".css">>),
    Ref("link", "href", <<"logo", ".png">>),
    Close("head"), Open("body"),
    Ref("img", "src", <<"logo", ".png">>),
    Ref("img", "src", <<"big-", "logo", ".png">>),
    Ref("img", "src", <<"a/", "icon", ".jpg">>),
    Ref("img", "src", <<"b/", "icon", ".jpg">>),
    Ref("a", "href", <<"missing", ".png">>),
    Text(<<"card">>),
    Close("body"), Close("html")>>

InitInline ==
  /\ Idle
  /\ \E assets \in AssetMaps :
       direct = DirectCall("_inlineResources", [html |-> AssetDocument, files |-> assets])

NextInline ==
  Return("_inlineResources", InlineResources(direct.arg.html, direct.arg.files))

\* _inlineResources(html, files) for every asset map
SpecInline == InitInline /\ [][NextInline]_vars

\* root documents: headings at levels 1 to 4; divs in the body and blanks
\* around a heading; no title, heading or div; a style sheet naming the cover
\* class
Documents ==
  {<<Open("html"), Open("head"), Title(<<"Card", "&", "Co">>), Close("head"),
     Open("body"), Heading(1, <<"Intro">>), Text(<<"text">>), Heading(2, <<"Parts">>),
     Heading(3, <<"Detail">>), Heading(4, <<"Note">>), Close("body"), Close("html")>>,
   <<Open("html"), Open("head"), Title(<<"Card">>), Close("head"),
     Open("body"), OpenClass("div", "card"), Heading(1, <<"One">>), Close("div"),
     Heading(2, <<" ", "Two", " ">>), Open("div"), Text(<<"a<b">>), Close("div"),
     Close("body"), Close("html")>>,
   <<Open("html"), Open("head"), Close("head"),
     Open("body"), Text(<<"text">>), Close("body"), Close("html")>>,
   <<Open("html"), Open("head"), Style(<<".", "chips-pdf-cover", "{}">>), Close("head"),
     Open("body"), Heading(2, <<"Only">>), Open("div"), Close("div"),
     Close("body"), Close("html")>>}

CoverConfigs ==
  {EmptyObj,
   Obj([coverConfig |-> Obj([showAuthor |-> FALSE, showDate |-> FALSE])]),
   Obj([coverConfig |-> Obj([title |-> <<"My", "<", "Card">>, subtitle |-> <<"About">>,
                             showDate |-> TRUE])]),
   Obj([coverConfig |-> Obj([customTemplate |->
          <<Open("section"), Text(<<"{{title}}">>), Close("section")>>])]),
   Obj([coverConfig |-> Obj([enabled |-> FALSE, showVersion |-> TRUE])]),
   Obj([coverConfig |-> Obj([enabled |-> TRUE])])}

TOCConfigs ==
  {EmptyObj,
   Obj([tocConfig |-> Obj([maxDepth |-> 2, showPageNumbers |-> TRUE])]),
   Obj([tocConfig |-> Obj([maxDepth |-> 1])]),
   Obj([tocConfig |-> Obj([title |-> <<"Index">>, maxDepth |-> 4,
                           showPageNumbers |-> TRUE])]),
   Obj([tocConfig |-> Obj([enabled |-> TRUE])]),
   Obj([tocConfig |-> Obj([enabled |-> FALSE, showPageNumbers |-> TRUE])])}

\* the options that decide what goes into the document
DocumentOptions ==
  {Spread(Spread(a, b), Spread(cc, tc)) :
     a \in {EmptyObj, Obj([includeCover |-> FALSE])},
     b \in {EmptyObj, Obj([includeTableOfContents |-> TRUE])},
     cc \in CoverConfigs, tc \in TOCConfigs}

InitDocument ==
  /\ Idle
  /\ \E d \in Documents, o \in DocumentOptions :
       direct = DirectCall("_generatePDF",
                  [indexHtml |-> d, files |-> <<>>, options |-> MergeOptions(o),
                   metadata |-> ExtractMetadata(d)])

NextDocument ==
  Return("_generatePDF",
         BuildHtml(direct.arg.indexHtml, direct.arg.files, direct.arg.options,
                   direct.arg.metadata))

\* the document _generatePDF builds, for every document and configuration
SpecDocument == InitDocument /\ [][NextDocument]_vars

\* the margin key of an object that holds a reference to DEFAULT_OPTIONS.margin
\* and not a margin object of its own
MarginRef == [ref |-> "DEFAULT_OPTIONS.margin"]

\* an object as its holder reads it: a margin reference leads to the one object
Read(o) ==
  IF IsDefined(o, "margin") /\ o.def.margin = MarginRef
  THEN Spread(o, Obj([margin |-> defaultMargin]))
  ELSE o

\* getDefaultOptions: { ...DEFAULT_OPTIONS }, a new object with the top-level
\* keys copied; the margin key is copied as the reference it is
getDefaultOptions == Spread(Spread(EmptyObj, DEFAULT_OPTIONS), Obj([margin |-> MarginRef]))

\* plugin.getDefaultOptions() is called and returns
GetDefaultOptionsReturns ==
  /\ direct' = [fn |-> "getDefaultOptions", returned |-> TRUE, arg |-> EmptyObj,
                ret |-> getDefaultOptions]
  /\ UNCHANGED convertVars

\* the caller assigns to a field of the returned object: d.pageSize = 'Letter'
AssignField(a) ==
  /\ Returned("getDefaultOptions")
  /\ direct' = [direct EXCEPT !.ret = Spread(@, a)]
  /\ UNCHANGED convertVars

\* the caller assigns to a side of the returned object's margin:
\* d.margin.top = '0mm' writes to the object d.margin refers to
AssignMarginSide(a) ==
  /\ Returned("getDefaultOptions")
  /\ direct.ret.def.margin = MarginRef
  /\ defaultMargin' = Spread(defaultMargin, a)
  /\ UNCHANGED <<pc, taskId, options, mergedOptions, progress, result, htmlResult,
                 files, browser, pending, ops, faults, sessions, nextTaskId, fs, direct>>

\* getDefaultOptions calls, a caller changing what it was handed, and a
\* convert call
NextDefaults ==
  \/ GetDefaultOptionsReturns
  \/ \E a \in {Obj([pageSize |-> "Letter"]), Obj([scale |-> 2]),
               Obj([includeCover |-> FALSE])} : AssignField(a)
  \/ \E k \in {"top", "right", "bottom", "left"} :
       AssignMarginSide(Obj([side \in {k} |-> <<"0", "m", "m">>]))
  \/ \E o \in ConcurrentOptions : Start(1, o)
  \/ StepConcurrent(1)

SpecDefaults == Init /\ [][NextDefaults]_vars

\* ------------------------------------------------------------------ claims

Done(c) == pc[c] \in {"resolved", "rejected"}

HasCallback(c) == IsDefined(mergedOptions[c], "onProgress")

\* the callback of call c threw on an event it was handed
CallbackThrew(c) ==
  /\ HasCallback(c)
  /\ \E i \in 1..Len(progress[c]) :
       progress[c][i].status \in mergedOptions[c].def.onProgress.throwsOn

InFinallyOrLater(c) == pc[c] \in {"awaitClose", "awaitWrite", "resolved", "rejected"}

\* C1: every session a convert call launched has browser.close() called on it
\* exactly once, when the try block of _generatePDF is left (normally or by an
\* exception of any step after the launch) and never before; once the call has
\* ended the session is closed, unless close() itself failed.
C1_SessionClosedExactlyOnce ==
  \A s \in 1..Len(sessions) :
    LET c == sessions[s].owner
    IN /\ browser[c] = s
       /\ sessions[s].closeCalls = (IF InFinallyOrLater(c) THEN 1 ELSE 0)
       /\ sessions[s].state = "closed" => sessions[s].closeCalls = 1
       /\ (Done(c) \/ pc[c] = "awaitWrite") /\ "close" \notin faults[c]
            => sessions[s].state = "closed"

\* a call whose try block threw after the launch has ended with its session closed
C1_Witness ==
  \E c \in Calls :
    /\ pc[c] = "resolved"
    /\ browser[c] # 0
    /\ pending[c].kind = "throw"
    /\ sessions[browser[c]].state = "closed"
    /\ sessions[browser[c]].closeCalls = 1

\* the result of call c is a failed result with an error code and message
FailedResult(c) ==
  /\ IsDefined(result[c], "success")
  /\ result[c].def.success = FALSE
  /\ IsDefined(result[c], "taskId")
  /\ result[c].def.taskId = taskId[c]
  /\ IsDefined(result[c], "error")
  /\ result[c].def.error.code # "undefined"
  /\ result[c].def.error.message # <<>>

\* C2: once a collaborator has failed (emitter, import, launch, newPage,
\* setContent, pdf, evaluate, close, write), the call ends resolved with
\* success=false, its own task id and an error code and message; the promise
\* rejects only when the caller's progress callback itself threw.
C2_CollaboratorFailureResolves ==
  \A c \in Calls :
    Done(c) /\ faults[c] # {} =>
      /\ pc[c] = "rejected" => CallbackThrew(c)
      /\ pc[c] = "resolved" => FailedResult(c)

\* a file write failed after a successful render and the call resolved failed
C2_Witness ==
  \E c \in Calls :
    /\ pc[c] = "resolved"
    /\ "write" \in faults[c]
    /\ ~CallbackThrew(c)
    /\ FailedResult(c)
    /\ result[c].def.error.message = <<"write-error">>

\* C3: a call whose merged options violate a validation rule ends at once:
\* no collaborator is called (emitter, puppeteer, fs), it owns no session,
\* wrote no file, and its result is success=false with code INVALID_PAGE_SIZE.
C3_InvalidOptionsStop ==
  \A c \in Calls :
    pc[c] # "idle" /\ Len(ValidationErrors(mergedOptions[c])) > 0 =>
      /\ pc[c] = "resolved"
      /\ ops[c] = <<>>
      /\ browser[c] = 0
      /\ \A s \in 1..Len(sessions) : sessions[s].owner # c
      /\ \A f \in fs : sessions[f.data.pdfOf].owner # c
      /\ FailedResult(c)
      /\ result[c].def.error.code = "INVALID_PAGE_SIZE"

\* pageSize 'custom' with a width and no height was refused
C3_Witness ==
  \E c \in Calls :
    /\ pc[c] = "resolved"
    /\ IsDefined(options[c], "pageSize")
    /\ options[c].def.pageSize = "custom"
    /\ IsDefined(options[c], "width")
    /\ ~IsDefined(options[c], "height")
    /\ result[c].def.error.code = "INVALID_PAGE_SIZE"
    /\ ops[c] = <<>>

\* C4: the percent values of the events handed to a (non-throwing) callback
\* never decrease, failed events included.
C4_PercentNeverDecreases ==
  \A c \in Calls :
    ~CallbackThrew(c) =>
      \A i, j \in 1..Len(progress[c]) :
        i < j => progress[c][i].percent <= progress[c][j].percent

StageRank(status) ==
  CASE status = "converting-html" -> 0
    [] status = "generating-cover" -> 1
    [] status = "generating-toc" -> 2
    [] status = "generating-pdf" -> 3
    [] status = "completed" -> 4
    [] OTHER -> 5

\* C5: the statuses handed to a (non-throwing) callback follow the forward
\* path converting-html, generating-cover, generating-toc, generating-pdf,
\* completed: no event of an earlier stage follows one of a later stage.
C5_StatusesOnlyMoveForward ==
  \A c \in Calls :
    ~CallbackThrew(c) =>
      /\ Len(progress[c]) > 0 =>
           progress[c][1].status = "converting-html" /\ progress[c][1].percent = 0
      /\ \A i, j \in 1..Len(progress[c]) :
           i < j => StageRank(progress[c][i].status) <= StageRank(progress[c][j].status)

TerminalEvents(c) ==
  {i \in 1..Len(progress[c]) : progress[c][i].status \in {"completed", "failed"}}

\* C6: a call made with a (non-throwing) callback ends with exactly one
\* terminal event, its last: completed at 100 % when the result has
\* success=true, failed when it has success=false.
C6_TerminalEventAgreesWithResult ==
  \A c \in Calls :
    Done(c) /\ HasCallback(c) /\ ~CallbackThrew(c) =>
      /\ pc[c] = "resolved"
      /\ TerminalEvents(c) = {Len(progress[c])}
      /\ Len(progress[c]) > 0
      /\ LET last == progress[c][Len(progress[c])]
         IN IF result[c].def.success
            THEN last.status = "completed" /\ last.percent = 100
            ELSE last.status = "failed"

\* a key of the result that holds a non-empty value
PopulatedPath(r) == IsDefined(r, "outputPath") /\ r.def.outputPath # ""

\* C7: a success result has exactly one of outputPath and data: with an output
\* path requested the rendered bytes are in the file at that path, outputPath
\* echoes it and data is absent; with none (or the empty string) data holds
\* the rendered bytes and outputPath names no path.  A failed result has
\* neither.
C7_PathOrData ==
  \A c \in Calls :
    pc[c] = "resolved" =>
      LET r == result[c]
          m == mergedOptions[c]
      IN IF r.def.success
         THEN /\ PopulatedPath(r) # IsDefined(r, "data")
              /\ TruthyStr(m, "outputPath") =>
                   /\ PopulatedPath(r)
                   /\ r.def.outputPath = options[c].def.outputPath
                   /\ [path |-> r.def.outputPath, data |-> PdfBytes(browser[c])] \in fs
              /\ ~TruthyStr(m, "outputPath") =>
                   /\ IsDefined(r, "data")
                   /\ r.def.data = PdfBytes(browser[c])
                   /\ browser[c] # 0
         ELSE ~IsDefined(r, "outputPath") /\ ~IsDefined(r, "data")

\* a call with an output path succeeded and the file holds its bytes
C7_Witness ==
  \E c \in Calls :
    /\ pc[c] = "resolved"
    /\ result[c].def.success
    /\ PopulatedPath(result[c])
    /\ ~IsDefined(result[c], "data")
    /\ [path |-> "out/card.pdf", data |-> PdfBytes(browser[c])] \in fs

Range(seq) == {seq[i] : i \in 1..Len(seq)}

\* the events call c hands its callback when it runs alone: a function of its
\* own options, of the collaborator calls it has made and of its own result
AloneProgress(c) ==
  LET m == mergedOptions[c]
      made == Range(ops[c])
      evs ==
        (IF "emit" \in made THEN <<Ev("converting-html", 0)>> ELSE <<>>)
        \o (IF "import" \in made THEN <<Ev("generating-pdf", 30)>> ELSE <<>>)
        \o (IF "setContent" \in made /\ m.def.includeCover
            THEN <<Ev("generating-cover", 40)>> ELSE <<>>)
        \o (IF "setContent" \in made /\ m.def.includeTableOfContents
            THEN <<Ev("generating-toc", 50)>> ELSE <<>>)
        \o (IF "setContent" \in made THEN <<Ev("generating-pdf", 60)>> ELSE <<>>)
        \o (IF "pdf" \in made THEN <<Ev("generating-pdf", 80)>> ELSE <<>>)
        \o (IF pc[c] = "resolved"
            THEN IF result[c].def.success THEN <<Ev("completed", 100)>>
                 ELSE <<Ev("failed", 0)>>
            ELSE <<>>)
  IN [i \in 1..Len(evs) |->
        [taskId |-> taskId[c], status |-> evs[i].status, percent |-> evs[i].percent]]

\* C8: concurrent calls have distinct task identifiers; the events handed to a
\* call's callback carry its own identifier and are exactly the sequence the
\* call produces alone; every call has its own session, on which close() is
\* called once, by its owner's finally block, and which stays open until then.
C8_ConcurrentCallsIndependent ==
  /\ \A c, d \in Calls :
       c # d /\ pc[c] # "idle" /\ pc[d] # "idle" =>
         /\ taskId[c] # taskId[d]
         /\ browser[c] # 0 => browser[c] # browser[d]
  /\ \A c \in Calls :
       pc[c] # "idle" /\ HasCallback(c) => progress[c] = AloneProgress(c)
  /\ \A s \in 1..Len(sessions) :
       LET c == sessions[s].owner
       IN /\ browser[c] = s
          /\ sessions[s].closeCalls = (IF InFinallyOrLater(c) THEN 1 ELSE 0)
          /\ sessions[s].state = "closed" <=> pc[c] \in {"awaitWrite", "resolved"}

\* a call that was started later and launched later has succeeded while the
\* other call still prints in its own open session
C8_Witness ==
  \E c, d \in Calls :
    /\ c # d
    /\ taskId[d] < taskId[c]
    /\ browser[d] # 0
    /\ browser[d] < browser[c]
    /\ pc[c] = "resolved"
    /\ result[c].def.success
    /\ sessions[browser[c]].state = "closed"
    /\ pc[d] = "awaitPdf"
    /\ sessions[browser[d]].state = "open"
    /\ Len(progress[d]) > 0
    /\ mergedOptions[c] # mergedOptions[d]

\* the message of the error a failed call resolved with
FailureMessage(c) ==
  IF pc[c] = "resolved" /\ ~result[c].def.success
  THEN result[c].def.error.message
  ELSE <<>>

\* C9: the error code of a call that failed because puppeteer could not be
\* imported differs from the code of a call that failed at the document load
\* (timeout), at print, on a missing index.html or at the file write.
C9_BackendUnavailableCodeDistinct ==
  \A c, d \in Calls :
    /\ FailureMessage(c) = <<"puppeteer-missing">>
    /\ FailureMessage(d) \in {<<"load-timeout">>, <<"pdf-error">>,
                              <<"index-html-missing">>, <<"write-error">>}
    => result[c].def.error.code # result[d].def.error.code

\* the asset map has no text entry under index.html: absent, empty or binary
NoRootDocument(f) ==
  \/ "index.html" \notin DOMAIN f
  \/ f["index.html"].type # "string"
  \/ f["index.html"].text = <<>>

\* the emitter of call c resolved with an asset map
EmitterSucceeded(c) ==
  /\ pc[c] \notin {"idle", "awaitEmitter"}
  /\ ops[c] # <<>>
  /\ "emit" \notin faults[c]

EmitterReportedFailure(c) ==
  /\ htmlResult[c] # <<>>
  /\ (~htmlResult[c][1].success \/ ~htmlResult[c][1].hasData)

\* C11: once the emitter has resolved with success=false, or with success and
\* no data, the call is over without any further collaborator call: no import,
\* no session, no file; a call whose callback did not throw resolves with
\* success=false and the emitter's own error (the fixed CONV-HTML-002 error
\* exactly when the emitter supplied none), and a callback was handed the
\* failed event last; the promise rejects only when the callback threw.
C11_EmitterFailureForwarded ==
  \A c \in Calls :
    EmitterReportedFailure(c) =>
      /\ Done(c)
      /\ ops[c] = <<"emit">>
      /\ browser[c] = 0
      /\ \A s \in 1..Len(sessions) : sessions[s].owner # c
      /\ \A f \in fs : sessions[f.data.pdfOf].owner # c
      /\ pc[c] = "rejected" => CallbackThrew(c)
      /\ pc[c] = "resolved" =>
           /\ ~CallbackThrew(c)
           /\ IsDefined(result[c], "success")
           /\ result[c].def.success = FALSE
           /\ result[c].def.taskId = taskId[c]
           /\ IF htmlResult[c][1].error = NoError
              THEN result[c].def.error = EmitterFallbackError
              ELSE result[c].def.error = htmlResult[c][1].error
           /\ HasCallback(c) =>
                /\ TerminalEvents(c) = {Len(progress[c])}
                /\ progress[c][Len(progress[c])].status = "failed"

\* the emitter reported success without data and with an error of its own, and
\* the call resolved with that error after the failed event
C11_Witness ==
  \E c \in Calls :
    /\ pc[c] = "resolved"
    /\ EmitterReportedFailure(c)
    /\ htmlResult[c][1].success
    /\ htmlResult[c][1].error = EmitterError
    /\ result[c].def.error = EmitterError
    /\ HasCallback(c)
    /\ progress[c][Len(progress[c])].status = "failed"

\* the page sizes the documentation lists
Presets == {"A4", "A3", "Letter", "Legal", "Tabloid"}

\* the margin sides of o that hold a non-empty value violating the grammar
BadMarginSides(o) ==
  IF IsDefined(o, "margin")
  THEN {i \in 1..4 : /\ TruthySeq(o.def.margin, MarginKeys[i])
                     /\ ~IsValidCSSLength(o.def.margin.def[MarginKeys[i]])}
  ELSE {}

\* the number of validation rules o violates, one per offending margin side
RuleViolations(o) ==
  (IF IsDefined(o, "pageSize") /\ o.def.pageSize \notin Presets \cup {"custom"}
   THEN 1 ELSE 0)
  + (IF /\ IsDefined(o, "pageSize") /\ o.def.pageSize = "custom"
        /\ ~(IsDefined(o, "width") /\ IsDefined(o, "height"))
     THEN 1 ELSE 0)
  + (IF IsDefined(o, "orientation") /\ o.def.orientation \notin {"portrait", "landscape"}
     THEN 1 ELSE 0)
  + (IF IsDefined(o, "scale") /\ ~(0 < o.def.scale /\ o.def.scale <= 2) THEN 1 ELSE 0)
  + Cardinality(BadMarginSides(o))
  + (IF IsDefined(o, "waitTime") /\ ~(o.def.waitTime >= 0) THEN 1 ELSE 0)

\* C12: validateOptions returns valid=true exactly when the options violate
\* none of the six rules (page size a known preset or 'custom'; 'custom' with
\* width and height; orientation portrait or landscape; 0 < scale <= 2; every
\* margin side given matches number+unit; waitTime >= 0), with errors absent;
\* otherwise errors has one entry per violated rule and per offending side.
C12_SixRulesIndependent ==
  Returned("validateOptions") =>
    LET n == RuleViolations(direct.arg)
        r == direct.ret
    IN /\ r.def.valid = (n = 0)
       /\ IsDefined(r, "errors") = (n > 0)
       /\ n > 0 => Len(r.def.errors) = n

\* C13: when the caller's options violate none of the validation rules (the
\* omitted and the empty options included, and 'custom' with width and
\* height), validateOptions of the merged options returns valid=true and no
\* errors.
C13_MergedValidInputValidates ==
  Returned("validateOptions") /\ IsDefined(direct.ret, "mergedOptions") =>
    (RuleViolations(direct.arg) = 0 =>
       /\ direct.ret.def.validation.def.valid
       /\ ~IsDefined(direct.ret.def.validation, "errors"))

\* 'custom' with width and height and a margin that sets two sides was merged
\* and validated
C13_Witness ==
  /\ Returned("validateOptions")
  /\ IsDefined(direct.ret, "mergedOptions")
  /\ IsDefined(direct.arg, "pageSize")
  /\ direct.arg.def.pageSize = "custom"
  /\ IsDefined(direct.arg, "height")
  /\ IsDefined(direct.arg, "margin")
  /\ Keys(direct.arg.def.margin) = {"right", "bottom"}
  /\ RuleViolations(direct.arg) = 0
  /\ direct.ret.def.mergedOptions.def.pageSize = "custom"
  /\ direct.ret.def.validation.def.valid

\* the keys of the effective configuration that have a fixed default
ScalarOptionKeys ==
  {"pageSize", "orientation", "includeCover", "includeTableOfContents",
   "printBackground", "scale", "waitTime"}

\* the value the caller supplied for k, the default when it supplied none
SuppliedOrDefault(o, defaults, k) ==
  IF IsDefined(o, k) THEN o.def[k] ELSE defaults.def[k]

\* C14: for every options object, one with undefined-valued keys included,
\* the merged options have a defined pageSize, orientation, includeCover,
\* includeTableOfContents, printBackground, scale and waitTime and four defined
\* margin sides, each the caller's value when the caller supplied one and the
\* default otherwise.
C14_MergedFullyPopulated ==
  Returned("_mergeOptions") =>
    LET o == direct.arg
        m == direct.ret
        callerMargin == IF IsDefined(o, "margin") THEN o.def.margin ELSE EmptyObj
    IN /\ \A k \in ScalarOptionKeys :
            /\ IsDefined(m, k)
            /\ m.def[k] = SuppliedOrDefault(o, DEFAULT_OPTIONS, k)
       /\ IsDefined(m, "margin")
       /\ \A i \in 1..4 :
            /\ IsDefined(m.def.margin, MarginKeys[i])
            /\ m.def.margin.def[MarginKeys[i]] =
                 SuppliedOrDefault(callerMargin, DEFAULT_MARGIN, MarginKeys[i])

\* C15: in a convert call made with a margin that sets some of the four sides,
\* each side of the merged margin is the caller's value when the caller set it
\* and '20mm' otherwise, and at every point of the call and after it the
\* caller's options object, its margin object included, is what was passed.
C15_MarginMergedPerSide ==
  \A c \in Calls :
    pc[c] # "idle" /\ direct.fn = "convert" =>
      LET passed == direct.arg
          m == mergedOptions[c].def.margin
      IN /\ options[c] = passed
         /\ Keys(options[c]) = Keys(passed)
         /\ options[c].def.margin = passed.def.margin
         /\ Keys(m) = {"top", "right", "bottom", "left"}
         /\ \A i \in 1..4 :
              /\ IsDefined(m, MarginKeys[i])
              /\ m.def[MarginKeys[i]] =
                   (IF IsDefined(passed.def.margin, MarginKeys[i])
                    THEN passed.def.margin.def[MarginKeys[i]]
                    ELSE MM20)

\* a call made with a margin setting top and left only has succeeded: right and
\* bottom were filled in the merged margin, not in the caller's
C15_Witness ==
  \E c \in Calls :
    /\ pc[c] = "resolved"
    /\ result[c].def.success
    /\ direct.fn = "convert"
    /\ Keys(direct.arg.def.margin) = {"top", "left"}
    /\ Keys(options[c].def.margin) = {"top", "left"}
    /\ mergedOptions[c].def.margin.def.right = MM20
    /\ mergedOptions[c].def.margin.def.top = SideValue.top

\* the width and height the caller's options name: the table entry of the
\* preset, or the custom pair
NamedDimensions(o) ==
  IF o.def.pageSize = "custom" THEN [width |-> o.def.width, height |-> o.def.height]
  ELSE PAGE_SIZE_MAP[o.def.pageSize]

\* C16: a convert call hands page.pdf one width and one height, once: for
\* orientation portrait (or none) the width and height of the preset's table
\* entry or of the custom pair, and for landscape the same two exchanged
\* (width = portrait height, height = portrait width), with the landscape
\* flag set accordingly.
C16_LandscapeSwapsOnce ==
  \A s \in 1..Len(sessions) :
    direct.fn = "convert" /\ IsDefined(direct.arg, "pageSize") =>
      LET c == sessions[s].owner
          d == NamedDimensions(direct.arg)
          landscape == /\ IsDefined(direct.arg, "orientation")
                       /\ direct.arg.def.orientation = "landscape"
          printed == sessions[s].printed
      IN /\ Len(printed) = (IF "pdf" \in Range(ops[c]) THEN 1 ELSE 0)
         /\ \A i \in 1..Len(printed) :
              /\ Keys(printed[i]) =
                   {"printBackground", "scale", "margin", "landscape", "width", "height"}
              /\ printed[i].und = {}
              /\ printed[i].def.landscape = landscape
              /\ printed[i].def.width = (IF landscape THEN d.height ELSE d.width)
              /\ printed[i].def.height = (IF landscape THEN d.width ELSE d.height)

\* a Letter landscape call was printed 11in wide and 8.5in high
C16_Witness ==
  \E s \in 1..Len(sessions) :
    /\ direct.fn = "convert"
    /\ IsDefined(direct.arg, "pageSize")
    /\ direct.arg.def.pageSize = "Letter"
    /\ IsDefined(direct.arg, "orientation")
    /\ direct.arg.def.orientation = "landscape"
    /\ Len(sessions[s].printed) = 1
    /\ sessions[s].printed[1].def.width = "11in"
    /\ sessions[s].printed[1].def.height = "8.5in"
    /\ pc[sessions[s].owner] = "resolved"

\* the bytes three base64 digits after the first of a group stand for
Base64GroupBytes(g) ==
  LET n == g[1] * 262144 + g[2] * 4096
             + (IF g[3] < 64 THEN g[3] * 64 ELSE 0) + (IF g[4] < 64 THEN g[4] ELSE 0)
  IN <<n \div 65536>>
     \o (IF g[3] < 64 THEN <<(n \div 256) % 256>> ELSE <<>>)
     \o (IF g[4] < 64 THEN <<n % 256>> ELSE <<>>)

RECURSIVE Base64Decode(_)
\* the bytes a base64 text decodes to
Base64Decode(digits) ==
  IF Len(digits) < 4 THEN <<>>
  ELSE Base64GroupBytes(SubSeq(digits, 1, 4)) \o Base64Decode(SubSeq(digits, 5, Len(digits)))

\* C17: after _inlineResources, no link tag remains whose href ends in the
\* filename of a text stylesheet of the map, no src or href value remains that
\* ends in the filename of a binary image of the map, and every reference to
\* the path of a binary image of the map has become a data: URL with the MIME
\* type of that image's extension and a base64 text decoding to that image's
\* bytes.
C17_InlinedReferences ==
  Returned("_inlineResources") =>
    LET before == direct.arg.html
        assets == direct.arg.files
        after == direct.ret
    IN \A k \in 1..Len(assets) :
         LET e == assets[k]
         IN /\ e.content.type = "string" /\ IsCssPath(e.path) =>
                 \A i \in 1..Len(after) :
                   ~(after[i].name = "link" /\ EndsWith(after[i].value, Filename(e.path)))
            /\ e.content.type = "Uint8Array" /\ IsImagePath(e.path) =>
                 /\ \A i \in 1..Len(after) :
                      ~(/\ after[i].attr \in {"src", "href"}
                        /\ EndsWith(after[i].value, Filename(e.path)))
                 /\ \A i \in 1..Len(before) :
                      before[i].attr \in {"src", "href"} /\ before[i].value = e.path =>
                        /\ after[i].url.mime = GetMimeType(e.path)
                        /\ Base64Decode(after[i].url.base64) = e.content.bytes

\* the positions of tocHtml at which an entry starts, in order
EntryStarts(tocHtml) ==
  SelectSeq([i \in 1..Len(tocHtml) |-> i], LAMBDA i : tocHtml[i].attr = "padding-left")

\* the configuration the TOC of a call is generated with
TOCConfigOf(opts) ==
  IF IsDefined(opts, "tocConfig") THEN opts.def.tocConfig ELSE DEFAULT_TOC_CONFIG

\* C18: with the TOC enabled, with or without a cover, the TOC generated for a
\* document has one entry per heading of the emitted document (index.html)
\* whose level is at most maxDepth, in document order, and no other entry; with
\* page numbers enabled the k-th entry carries the number k+1.
C18_TOCEntriesAreDocumentHeadings ==
  Returned("_generatePDF") /\ TruthyBool(direct.arg.options, "includeTableOfContents") =>
    LET config == TOCConfigOf(direct.arg.options)
        maxDepth == IF IsDefined(config, "maxDepth") THEN config.def.maxDepth ELSE 3
        expected == SelectSeq(Headings(direct.arg.indexHtml), LAMBDA t : t.level <= maxDepth)
        toc == direct.ret.tocHtml
        starts == EntryStarts(toc)
    IN /\ Len(starts) = Len(expected)
       /\ \A k \in 1..Len(starts) :
            /\ toc[starts[k]].num = (expected[k].level - 1) * 20
            /\ toc[starts[k] + 2].text = EscapeHtml(Trim(expected[k].text))
            /\ TruthyBool(config, "showPageNumbers") => toc[starts[k] + 5].num = k + 1

\* C19: in the document handed to the page, the cover block (when the cover is
\* enabled) directly follows the opening body tag, whole, and the TOC block
\* (when the TOC is enabled) directly follows the closing tag of the cover
\* block when there is one and the opening body tag otherwise.
C19_TOCFollowsCoverBlock ==
  Returned("_generatePDF") =>
    LET opts == direct.arg.options
        html == direct.ret.fullHtml
        body == IndexOf(html, 1, {p \in DOMAIN html : IsBodyTag(html[p])})
        cover == direct.ret.coverHtml
        toc == direct.ret.tocHtml
        coverEnd == body + Len(cover)
    IN /\ TruthyBool(opts, "includeCover") =>
            SubSeq(html, body + 1, coverEnd) = cover
       /\ TruthyBool(opts, "includeTableOfContents") =>
            SubSeq(html, coverEnd + 1, coverEnd + Len(toc)) = toc

IsPrefix(p, q) == Len(p) <= Len(q) /\ SubSeq(q, 1, Len(p)) = p

\* the collaborator calls of a convert call in which nothing fails
StepsInOrder(merged) ==
  <<"emit", "import", "launch", "newPage", "setContent">>
  \o (IF IsDefined(merged, "waitTime") /\ merged.def.waitTime = 0 THEN <<>> ELSE <<"settle">>)
  \o <<"pdf", "evaluate", "close">>
  \o (IF TruthyStr(merged, "outputPath") THEN <<"write">> ELSE <<>>)

\* the steps taken inside the try block of _generatePDF
InTryBlock == {"newPage", "setContent", "settle", "pdf", "evaluate"}

\* C20: the steps of one convert call are taken one at a time in the order
\* launch, load, settle delay (none when waitTime is 0), print, page-count
\* estimation, close, file write (only with an output path): at every point the
\* steps taken are an initial part of that order, or an initial part that ends
\* inside the try block followed by the close; print is requested only after a
\* load that succeeded and after the settle delay; a load timeout is followed
\* by the close alone and a failed result; the completed event comes after all
\* the steps.
C20_RenderingStepsInOrder ==
  \A c \in Calls :
    pc[c] # "idle" =>
      LET all == StepsInOrder(mergedOptions[c])
          done == ops[c]
          n == Len(done)
      IN /\ \/ IsPrefix(done, all)
            \/ /\ n > 1
               /\ done[n] = "close"
               /\ done[n - 1] \in InTryBlock
               /\ IsPrefix(SubSeq(done, 1, n - 1), all)
         /\ "pdf" \in Range(done) =>
              /\ "setContent" \notin faults[c]
              /\ WaitTime(mergedOptions[c]) > 0 => "settle" \in Range(done)
         /\ pending[c].message = <<"load-timeout">> =>
              /\ "pdf" \notin Range(done)
              /\ done[n] = "close"
              /\ done[n - 1] = "setContent"
              /\ pc[c] = "resolved" => ~result[c].def.success
         /\ (\E i \in 1..Len(progress[c]) : progress[c][i].status = "completed") =>
              done = all /\ Done(c)

\* a call with waitTime 0 and an output path went from the load straight to
\* print and ended with the file written and the completed event
C20_Witness ==
  \E c \in Calls :
    /\ pc[c] = "resolved"
    /\ result[c].def.success
    /\ ops[c] = <<"emit", "import", "launch", "newPage", "setContent", "pdf",
                  "evaluate", "close", "write">>
    /\ Len(progress[c]) > 0
    /\ progress[c][Len(progress[c])].status = "completed"

\* a completed event of call c is followed by a failed event of the same call
CompletedThenFailed(c) ==
  \E i, j \in 1..Len(progress[c]) :
    /\ i < j
    /\ progress[c][i].status = "completed"
    /\ progress[c][j].status = "failed"

\* C21: an exception thrown by the progress callback never escapes convert:
\* whichever event the callback throws on, the promise of a call that has ended
\* is resolved with a result object, never rejected, and no completed event of
\* the call is followed by a failed event.
C21_CallbackExceptionContained ==
  \A c \in Calls :
    Done(c) /\ CallbackThrew(c) =>
      /\ pc[c] = "resolved"
      /\ result[c] # NoResult
      /\ ~CompletedThenFailed(c)

\* the defaults as the module's source text writes them
OriginalDefaults ==
  Obj([pageSize |-> "A4", orientation |-> "portrait", margin |-> DEFAULT_MARGIN,
       includeCover |-> TRUE, includeTableOfContents |-> FALSE,
       printBackground |-> TRUE, scale |-> 1, waitTime |-> 1000])

\* C22: the default configuration stays read-only shared state: whatever a
\* caller assigned to an object getDefaultOptions returned (a side of its
\* margin included), a getDefaultOptions call made now returns the original
\* defaults, and every convert call started so far merged its options (none
\* of which sets a margin) over the original defaults.
C22_DefaultsStayReadOnly ==
  /\ Read(getDefaultOptions) = OriginalDefaults
  /\ \A c \in Calls :
       pc[c] # "idle" => mergedOptions[c] = Spread(OriginalDefaults, options[c])

\* the token a cover block starts with: the cover div, or the first tag of
\* the custom template
IsCoverStart(t) == t = OpenClass("div", "chips-pdf-cover") \/ t = Open("section")

IsTOCStart(t) == t = OpenClass("div", "chips-pdf-toc")

HasCover(html) == \E i \in 1..Len(html) : IsCoverStart(html[i])

HasTOC(html) == \E i \in 1..Len(html) : IsTOCStart(html[i])

HasEvent(events, status) == \E i \in 1..Len(events) : events[i].status = status

\* the items a cover is to show for the configuration cfg alone
ShownItems(cfg) ==
  (IF IsDefined(cfg, "showAuthor") /\ cfg.def.showAuthor THEN <<"author">> ELSE <<>>)
  \o (IF IsDefined(cfg, "showDate") /\ cfg.def.showDate THEN <<"date">> ELSE <<>>)
  \o (IF IsDefined(cfg, "showVersion") /\ cfg.def.showVersion THEN <<"version">> ELSE <<>>)

\* the items the metadata line of a generated cover shows
CoverItems(cover) ==
  IF \E i \in 1..Len(cover) : cover[i] = Open("div")
  THEN cover[(CHOOSE i \in 1..Len(cover) : cover[i] = Open("div")) + 1].text
  ELSE <<>>

\* the page numbers a generated TOC carries
PageNumbers(toc) == {i \in 1..Len(toc) : toc[i].kind = "text" /\ toc[i].num # 0}

====
